---- MODULE Spec2Model ----
(***************************************************************************)
(* PrecomputedSolver (src/pokercoach/solver/texas_solver.py): the tiered   *)
(* GTO-solution cache.  One solver instance is shared by a set of caller   *)
(* threads; every caller runs solve, get_strategy or flush_pending_cache   *)
(* and the steps of the callers interleave at the points where the code    *)
(* does I/O or waits for the fallback solver.                              *)
(***************************************************************************)
EXTENDS Integers, Sequences, FiniteSets, TLC

(***************************************************************************)
(* Bounds of the model.                                                    *)
(***************************************************************************)
NumCallers == 2
MaxOps == 4

Callers == 1..NumCallers

(***************************************************************************)
(* core/game_state.py: enumerations.                                       *)
(***************************************************************************)
\* ActionType: member name -> value
ActionType ==
  [FOLD |-> "fold", CHECK |-> "check", CALL |-> "call",
   BET |-> "bet", RAISE |-> "raise", ALL_IN |-> "all-in"]

ActionTypeMembers == DOMAIN ActionType

\* Position: the member names; NoPosition is hero_position = None
Position == {"BTN", "SB", "BB", "UTG", "UTG1", "UTG2", "MP", "MP1", "HJ", "CO"}
NoPosition == "None"

\* Rank: list(Rank) in declaration order; value_int = index + 2
RankOrder == <<"2", "3", "4", "5", "6", "7", "8", "9", "T", "J", "Q", "K", "A">>
Suit == {"c", "d", "h", "s"}

value_int(rank) == (CHOOSE i \in 1..Len(RankOrder) : RankOrder[i] = rank) + 1

(***************************************************************************)
(* Small helpers.                                                          *)
(***************************************************************************)
Range(f) == {f[x] : x \in DOMAIN f}

\* dict assignment d[k] = v on a dict modelled as a function
DictSet(d, k, v) == [x \in (DOMAIN d) \cup {k} |-> IF x = k THEN v ELSE d[x]]

EmptyDict == [x \in {} |-> 0]

(***************************************************************************)
(* PrecomputedSolver._cache_key and its helpers.  A game state is the      *)
(* record [pot, effective_stack, board, hero_position]; pot and stack are  *)
(* whole big blinds; a card is <<rank, suit>>.  The key is the sequence of *)
(* the parts that the code joins with "_".                                 *)
(***************************************************************************)
\* a faulty variant: 'mono' needs more than three cards of a suit
get_board_texture_four(suit_counts) ==
  LET max_suited == IF DOMAIN suit_counts = {} THEN 0
                    ELSE CHOOSE m \in Range(suit_counts) :
                           \A n \in Range(suit_counts) : n <= m
  IN IF max_suited > 3 THEN "mono"
     ELSE IF max_suited = 2 THEN "fd"
     ELSE "rainbow"

\* _get_board_texture: the largest suit count decides the tag
get_board_texture(suit_counts) ==
  LET max_suited == IF DOMAIN suit_counts = {} THEN 0
                    ELSE CHOOSE m \in Range(suit_counts) :
                           \A n \in Range(suit_counts) : n <= m
  IN IF max_suited >= 3 THEN "mono"
     ELSE IF max_suited = 2 THEN "fd"
     ELSE "rainbow"

\* sorted(cards, key=lambda c: -c.rank.value_int): a stable insertion sort
RECURSIVE InsertByRank(_, _)
InsertByRank(card, sorted) ==
  IF sorted = <<>> THEN <<card>>
  ELSE IF value_int(Head(sorted)[1]) >= value_int(card[1])
       THEN <<Head(sorted)>> \o InsertByRank(card, Tail(sorted))
       ELSE <<card>> \o sorted

RECURSIVE SortedByRank(_)
SortedByRank(cards) ==
  IF cards = <<>> THEN <<>>
  ELSE LET n == Len(cards)
       IN InsertByRank(cards[n], SortedByRank(SubSeq(cards, 1, n - 1)))

canonical_suits == <<"a", "b", "c", "d">>

\* a faulty variant: the cards keep their own suits
CanonicalPartsOwnSuits(sorted_cards, suit_map, next_canonical) == sorted_cards

\* a faulty variant: every suit is written 'a'
CanonicalPartsOneSuit(sorted_cards, suit_map, next_canonical) ==
  [i \in 1..Len(sorted_cards) |-> <<sorted_cards[i][1], "a">>]

\* a faulty variant: next_canonical stops at 'c'
RECURSIVE CanonicalPartsThreeSymbols(_, _, _)
CanonicalPartsThreeSymbols(sorted_cards, suit_map, next_canonical) ==
  IF sorted_cards = <<>> THEN <<>>
  ELSE LET card == Head(sorted_cards)
           fresh == card[2] \notin DOMAIN suit_map
           map2 == IF fresh
                   THEN DictSet(suit_map, card[2], canonical_suits[next_canonical + 1])
                   ELSE suit_map
           next2 == IF fresh
                    THEN (IF next_canonical + 1 < 2 THEN next_canonical + 1 ELSE 2)
                    ELSE next_canonical
       IN <<<<card[1], map2[card[2]]>>>>
            \o CanonicalPartsThreeSymbols(Tail(sorted_cards), map2, next2)

\* the loop over sorted_cards: suit_map, next_canonical (0-based), parts
RECURSIVE CanonicalParts(_, _, _)
CanonicalParts(sorted_cards, suit_map, next_canonical) ==
  IF sorted_cards = <<>> THEN <<>>
  ELSE LET card == Head(sorted_cards)
           fresh == card[2] \notin DOMAIN suit_map
           map2 == IF fresh
                   THEN DictSet(suit_map, card[2], canonical_suits[next_canonical + 1])
                   ELSE suit_map
           next2 == IF fresh
                    THEN (IF next_canonical + 1 < 3 THEN next_canonical + 1 ELSE 3)
                    ELSE next_canonical
       IN <<<<card[1], map2[card[2]]>>>> \o CanonicalParts(Tail(sorted_cards), map2, next2)

SuitCounts(cards) ==
  [s \in {cards[i][2] : i \in 1..Len(cards)} |->
     Cardinality({i \in 1..Len(cards) : cards[i][2] = s})]

canonicalize_board(cards) ==
  IF cards = <<>> THEN <<"empty">>
  ELSE <<CanonicalParts(SortedByRank(cards), EmptyDict, 0),
         get_board_texture(SuitCounts(cards))>>

\* a faulty variant: the quotient is rounded down
RoundDown(num, den) == num \div den

\* round(x) of Python for x = num / den >= 0: to nearest, ties to even
RoundHalfEven(num, den) ==
  LET q == num \div den
      r == num % den
  IN IF 2 * r < den THEN q
     ELSE IF 2 * r > den THEN q + 1
     ELSE IF q % 2 = 0 THEN q ELSE q + 1

\* a faulty variant: the hijack is not among the in-position seats
cache_key_hijack_oop(game_state) ==
  LET stack0 == (game_state.effective_stack \div 100) * 100
      stack_bucket == IF stack0 = 0 THEN 100 ELSE stack0
      pot_pct == IF game_state.effective_stack > 0
                 THEN RoundHalfEven(game_state.pot * 10, game_state.effective_stack) * 10
                 ELSE 0
      board_part == IF game_state.board # <<>>
                    THEN <<"board", canonicalize_board(game_state.board)>>
                    ELSE <<"preflop">>
      pos_part == IF game_state.hero_position # NoPosition
                  THEN (IF game_state.hero_position \in {"BTN", "CO"} THEN "ip" ELSE "oop")
                  ELSE "unk"
  IN <<<<"stack", stack_bucket>>, <<"pot", pot_pct>>, board_part, pos_part>>

\* a faulty variant: a stack bucket of 0 stays 0
cache_key_no_minimum(game_state) ==
  LET stack_bucket == (game_state.effective_stack \div 100) * 100
      pot_pct == IF game_state.effective_stack > 0
                 THEN RoundHalfEven(game_state.pot * 10, game_state.effective_stack) * 10
                 ELSE 0
      board_part == IF game_state.board # <<>>
                    THEN <<"board", canonicalize_board(game_state.board)>>
                    ELSE <<"preflop">>
      pos_part == IF game_state.hero_position # NoPosition
                  THEN (IF game_state.hero_position \in {"BTN", "CO", "HJ"} THEN "ip" ELSE "oop")
                  ELSE "unk"
  IN <<<<"stack", stack_bucket>>, <<"pot", pot_pct>>, board_part, pos_part>>

\* a faulty variant: the stack goes into the key as it is
cache_key_raw_stack(game_state) ==
  LET pot_pct == IF game_state.effective_stack > 0
                 THEN RoundHalfEven(game_state.pot * 10, game_state.effective_stack) * 10
                 ELSE 0
      board_part == IF game_state.board # <<>>
                    THEN <<"board", canonicalize_board(game_state.board)>>
                    ELSE <<"preflop">>
      pos_part == IF game_state.hero_position # NoPosition
                  THEN (IF game_state.hero_position \in {"BTN", "CO", "HJ"} THEN "ip" ELSE "oop")
                  ELSE "unk"
  IN <<<<"stack", game_state.effective_stack>>, <<"pot", pot_pct>>, board_part, pos_part>>

cache_key(game_state) ==
  LET stack0 == (game_state.effective_stack \div 100) * 100
      stack_bucket == IF stack0 = 0 THEN 100 ELSE stack0
      pot_pct == IF game_state.effective_stack > 0
                 THEN RoundHalfEven(game_state.pot * 10, game_state.effective_stack) * 10
                 ELSE 0
      board_part == IF game_state.board # <<>>
                    THEN <<"board", canonicalize_board(game_state.board)>>
                    ELSE <<"preflop">>
      ip_positions == {"BTN", "CO", "HJ"}
      pos_part == IF game_state.hero_position # NoPosition
                  THEN (IF game_state.hero_position \in ip_positions THEN "ip" ELSE "oop")
                  ELSE "unk"
  IN <<<<"stack", stack_bucket>>, <<"pot", pot_pct>>, board_part, pos_part>>

(***************************************************************************)
(* Hands and hand strings (core/game_state.py).  A string is the sequence  *)
(* of its characters; a Card is <<rank, suit>>; a Hand is a pair of Cards. *)
(***************************************************************************)
\* str.upper() / str.lower() on one character
upper(ch) ==
  CASE ch = "a" -> "A" [] ch = "k" -> "K" [] ch = "q" -> "Q" [] ch = "j" -> "J"
    [] ch = "t" -> "T" [] ch = "c" -> "C" [] ch = "d" -> "D" [] ch = "h" -> "H"
    [] ch = "s" -> "S" [] OTHER -> ch

lower(ch) ==
  CASE ch = "A" -> "a" [] ch = "K" -> "k" [] ch = "Q" -> "q" [] ch = "J" -> "j"
    [] ch = "T" -> "t" [] ch = "C" -> "c" [] ch = "D" -> "d" [] ch = "H" -> "h"
    [] ch = "S" -> "s" [] OTHER -> ch

\* Card.from_string succeeds (no ValueError) on the two characters s
CardParses(s) ==
  /\ Len(s) = 2
  /\ upper(s[1]) \in Range(RankOrder)
  /\ lower(s[2]) \in Suit

CardFromString(s) == <<upper(s[1]), lower(s[2])>>

\* Hand.from_string succeeds on s
HandParses(s) ==
  /\ Len(s) = 4
  /\ CardParses(SubSeq(s, 1, 2))
  /\ CardParses(SubSeq(s, 3, 4))

HandFromString(s) == <<CardFromString(SubSeq(s, 1, 2)), CardFromString(SubSeq(s, 3, 4))>>

\* Hand.__str__
HandStr(hand) == <<hand[1][1], hand[1][2], hand[2][1], hand[2][2]>>

AsAh == <<"A", "s", "A", "h">>
KdKc == <<"K", "d", "K", "c">>

(***************************************************************************)
(* solver/bridge.py: Strategy and Solution.  Frequencies are in percent,   *)
(* convergence is the printed float, "inf" for float("inf").               *)
(***************************************************************************)
Strategy(hand, actions) == [hand |-> hand, actions |-> actions]

Solution(game_state, strategies, ev, convergence, iterations) ==
  [game_state |-> game_state, strategies |-> strategies, ev |-> ev,
   convergence |-> convergence, iterations |-> iterations]

\* a faulty variant: a hand the Solution lacks gets an empty Strategy
SolutionGetStrategyDefault(solution, hand) ==
  [found |-> TRUE,
   strategy |-> IF HandStr(hand) \in DOMAIN solution.strategies
                THEN solution.strategies[HandStr(hand)]
                ELSE Strategy(hand, EmptyDict)]

\* Solution.get_strategy: self.strategies.get(str(hand))
SolutionGetStrategy(solution, hand) ==
  IF HandStr(hand) \in DOMAIN solution.strategies
  THEN [found |-> TRUE, strategy |-> solution.strategies[HandStr(hand)]]
  ELSE [found |-> FALSE, strategy |-> Strategy(hand, EmptyDict)]

\* the Solution built in the except TimeoutError branch of _solve_with_fallback
Placeholder(game_state) == Solution(game_state, EmptyDict, EmptyDict, "inf", 0)

IsPlaceholder(solution) ==
  /\ DOMAIN solution.strategies = {}
  /\ solution.convergence = "inf"
  /\ solution.iterations = 0

DefaultIterations == 1000

(***************************************************************************)
(* The fallback solver is an external collaborator.  What it computes     *)
(* depends on the exact decision point, not on its cache key: up to 100bb  *)
(* it is the result of the test suite's mock solver, above 100bb a second, *)
(* different result.                                                       *)
(***************************************************************************)
MockPayload ==
  [strategies |-> [h \in {AsAh} |->
                     Strategy(HandFromString(AsAh),
                              [a \in {"RAISE", "CALL", "FOLD"} |->
                                 CASE a = "RAISE" -> 90 [] a = "CALL" -> 10 [] OTHER -> 0])],
   ev |-> [h \in {AsAh} |-> 5],
   convergence |-> "0.3"]

OtherPayload ==
  [strategies |-> [h \in {AsAh} |->
                     Strategy(HandFromString(AsAh),
                              [a \in {"RAISE", "CALL"} |-> 50])],
   ev |-> [h \in {AsAh} |-> 4],
   convergence |-> "0.3"]

SolverPayloads == {MockPayload, OtherPayload}

SolverPayload(game_state) ==
  IF game_state.effective_stack > 100 THEN OtherPayload ELSE MockPayload

\* the errors a fallback solver raises: the builtin TimeoutError, the
\* subprocess module's TimeoutExpired, RuntimeError ("Solver failed") and
\* ValueError (solver output that does not parse)
SolverErrors == {"TimeoutError", "TimeoutExpired", "RuntimeError", "ValueError"}

\* the errors that report a timeout
TimeoutErrors == {"TimeoutError", "TimeoutExpired"}

\* what one invocation of fallback_solver.solve does: it returns its result,
\* before (fast) or after the configured timeout, or it raises
SolverOutcomes ==
  {[kind |-> "return", fast |-> f, error |-> "none"] : f \in BOOLEAN}
  \cup {[kind |-> "raise", fast |-> FALSE, error |-> e] : e \in SolverErrors}

\* the Solution the fallback returns for game_state when asked for iterations
SolverSolution(game_state, iterations) ==
  LET payload == SolverPayload(game_state)
  IN Solution(game_state, payload.strategies, payload.ev, payload.convergence, iterations)

(***************************************************************************)
(* Store blobs.  A blob is [kind, data]: kind "object" is a JSON object    *)
(* whose fields are data; "array" is valid JSON that is no object;         *)
(* "garbage" does not parse.                                               *)
(***************************************************************************)
\* a faulty variant: the actions are written by member name, not by value
SerializeSolutionByName(solution) ==
  [kind |-> "object",
   data |-> [strategies |->
               [hand_str \in DOMAIN solution.strategies |->
                  solution.strategies[hand_str].actions],
             ev |-> solution.ev,
             convergence |-> solution.convergence,
             iterations |-> solution.iterations]]

\* the dict that flush_pending_cache hands to json.dump
SerializeSolution(solution) ==
  [kind |-> "object",
   data |-> [strategies |->
               [hand_str \in DOMAIN solution.strategies |->
                  LET actions == solution.strategies[hand_str].actions
                  IN [v \in {ActionType[a] : a \in DOMAIN actions} |->
                        actions[CHOOSE a \in DOMAIN actions : ActionType[a] = v]]],
             ev |-> solution.ev,
             convergence |-> solution.convergence,
             iterations |-> solution.iterations]]

\* ActionType(k) succeeds
IsActionValue(k) == \E a \in ActionTypeMembers : ActionType[a] = k

ActionTypeOf(k) == CHOOSE a \in ActionTypeMembers : ActionType[a] = k

\* a faulty variant: one unknown action name discards the actions of the hand
LoadActionsStrict(action_dict) ==
  IF \A x \in DOMAIN action_dict : IsActionValue(x)
  THEN [a \in {ActionTypeOf(k) : k \in DOMAIN action_dict} |-> action_dict[ActionType[a]]]
  ELSE EmptyDict

\* the inner loop of _load_cached_solution: unknown action names are skipped
LoadActions(action_dict) ==
  [a \in {ActionTypeOf(k) : k \in {x \in DOMAIN action_dict : IsActionValue(x)}} |->
     action_dict[ActionType[a]]]

\* _load_cached_solution: [ok, solution] or [ok = FALSE, error]
load_cached_solution(blob, game_state) ==
  IF blob.kind = "garbage"
  THEN [ok |-> FALSE, error |-> "JSONDecodeError", solution |-> Placeholder(game_state)]
  ELSE IF blob.kind # "object"
  THEN [ok |-> FALSE, error |-> "AttributeError", solution |-> Placeholder(game_state)]
  ELSE LET data == blob.data
           raw == IF "strategies" \in DOMAIN data THEN data.strategies ELSE EmptyDict
           strategies ==
             [hand_str \in {h \in DOMAIN raw : HandParses(h)} |->
                Strategy(HandFromString(hand_str), LoadActions(raw[hand_str]))]
       IN [ok |-> TRUE, error |-> "none",
           solution |->
             Solution(game_state, strategies,
                      IF "ev" \in DOMAIN data THEN data.ev ELSE EmptyDict,
                      IF "convergence" \in DOMAIN data THEN data.convergence ELSE "0.0",
                      IF "iterations" \in DOMAIN data THEN data.iterations ELSE 0)]

\* the blob the test suite writes by hand: strategies only
SampleBlob ==
  [kind |-> "object",
   data |-> [strategies |->
               [h \in {AsAh} |->
                  [v \in {"raise", "call", "fold"} |->
                     CASE v = "raise" -> 90 [] v = "call" -> 10 [] OTHER -> 0]]]]

\* a file that json.load rejects
GarbageBlob == [kind |-> "garbage", data |-> EmptyDict]

\* a file holding valid JSON whose top-level value is a list: data.get fails
\* (the same for a string, a number or null)
ArrayBlob == [kind |-> "array", data |-> EmptyDict]

\* a file holding a JSON object that has no "strategies" field
NoStrategiesBlob == [kind |-> "object", data |-> [ev |-> [h \in {AsAh} |-> 5]]]

\* "AKs" names no two cards: Hand.from_string raises ValueError
AKs == <<"A", "K", "s">>

\* a file whose strategies hold a hand key that is no hand, next to a good one
BadHandBlob ==
  [kind |-> "object",
   data |-> [strategies |->
               [h \in {AsAh, AKs} |->
                  [v \in {"raise", "call"} |-> IF v = "raise" THEN 90 ELSE 10]]]]

\* a file in which a hand has an action name that ActionType does not know
UnknownActionBlob ==
  [kind |-> "object",
   data |-> [strategies |->
               [h \in {AsAh} |->
                  [v \in {"raise", "limp"} |-> IF v = "raise" THEN 90 ELSE 10]]]]

StoreBlobs ==
  {SampleBlob, GarbageBlob, ArrayBlob, NoStrategiesBlob, BadHandBlob, UnknownActionBlob}

(***************************************************************************)
(* State.                                                                  *)
(*   cache, pending, loading   PrecomputedSolver._cache, ._pending_cache   *)
(*                             (an insertion-ordered dict: a sequence of   *)
(*                             entries) and ._loading                      *)
(*   fallback                  ._fallback_solver: "None" or "solver"       *)
(*   store                     the files <key>.json of cache_dir           *)
(*   pc, op, ret               per caller: where it is in its call, the    *)
(*                             call and its locals, its result; a result   *)
(*                             is kept until the next call starts          *)
(*   snap                      cache, pending and store as they were when  *)
(*                             the call in progress started, while it is   *)
(*                             the only call in progress                   *)
(*   queued_keys               keys queued since the last completed flush  *)
(*   nops                      number of calls started                     *)
(*   flushed                   per key, the Solution that a flush wrote    *)
(*                             last to the key's store file                *)
(*   probe                     the decision points whose keys were         *)
(*                             computed, and the keys                      *)
(***************************************************************************)
VARIABLES cache, pending, loading, fallback, store, pc, op, ret, snap, queued_keys, nops,
          flushed, probe, parked

vars == <<cache, pending, loading, fallback, store, pc, op, ret, snap, queued_keys, nops,
          flushed, probe, parked>>

GameState(pot, effective_stack, board, hero_position) ==
  [pot |-> pot, effective_stack |-> effective_stack, board |-> board,
   hero_position |-> hero_position]

\* the decision points the callers ask about: the first two share a key
DecisionPoints ==
  {GameState(50, 100, <<>>, NoPosition),
   GameState(75, 150, <<>>, NoPosition),
   GameState(100, 100, <<>>, NoPosition)}

Keys == {cache_key(g) : g \in DecisionPoints}

\* the hands get_strategy is asked about
Hands == {HandFromString(AsAh), HandFromString(KdKc)}

NoGameState == GameState(0, 0, <<>>, NoPosition)
NoHand == <<>>

NoOutcome == [kind |-> "none", fast |-> FALSE, error |-> "none"]

\* a call and its locals: read_store and invoked count the reads of the
\* store file and the invocations of the fallback solver by this call,
\* outcome is what the fallback solver did; pos, used and count are the
\* position of the dict iterator, the dict size it expects, and count
NoCall ==
  [name |-> "none", game_state |-> NoGameState, key |-> <<>>, hand |-> NoHand,
   read_store |-> 0, invoked |-> 0, outcome |-> NoOutcome,
   pos |-> 0, used |-> 0, count |-> 0]

NoResult == [kind |-> "none", tier |-> "none", val |-> 0]

\* no key has been computed outside solve; `at` is the number of calls
\* started when key_a was computed
NoProbe ==
  [how |-> "none", a |-> NoGameState, b |-> NoGameState, key_a |-> <<>>, key_b |-> <<>>,
   at |-> 0]

\* a second PrecomputedSolver on the same cache directory, as __init__
\* leaves it, with a fallback solver; `parked` holds the instance that is
\* not running a call
SecondInstance ==
  [cache |-> EmptyDict, pending |-> <<>>, loading |-> FALSE, fallback |-> "solver",
   queued_keys |-> {}]

NoSnap == [taken |-> FALSE, cache |-> EmptyDict, pending |-> <<>>, store |-> EmptyDict]

Snapshot ==
  IF \A c \in Callers : pc[c] = "idle"
  THEN [taken |-> TRUE, cache |-> cache, pending |-> pending, store |-> store]
  ELSE NoSnap

\* the pending queue as a dict
PendingKeys == {pending[i].key : i \in 1..Len(pending)}
PendingIndex(key) == CHOOSE i \in 1..Len(pending) : pending[i].key = key
PendingDict == [k \in PendingKeys |-> pending[PendingIndex(k)].solution]

\* self._pending_cache[key] = solution: a new key goes to the end, an
\* existing key keeps its place; the entry has not been written by a flush
PendingSet(key, solution) ==
  LET entry == [key |-> key, solution |-> solution, written |-> FALSE]
  IN IF key \in PendingKeys
     THEN [pending EXCEPT ![PendingIndex(key)] = entry]
     ELSE Append(pending, entry)

(***************************************************************************)
(* Init: a freshly constructed PrecomputedSolver on a cache directory that *)
(* holds files for some of the keys, precomputed blobs or corrupt ones.    *)
(***************************************************************************)
InitialStores ==
  UNION {[K -> {SampleBlob, GarbageBlob}] : K \in SUBSET Keys}

Init ==
  /\ cache = EmptyDict
  /\ pending = <<>>
  /\ loading = FALSE
  /\ fallback \in {"None", "solver"}
  /\ store \in InitialStores
  /\ pc = [c \in Callers |-> "idle"]
  /\ op = [c \in Callers |-> NoCall]
  /\ ret = [c \in Callers |-> NoResult]
  /\ snap = NoSnap
  /\ queued_keys = {}
  /\ nops = 0
  /\ flushed = EmptyDict
  /\ parked = SecondInstance
  /\ probe = NoProbe

\* the same on a cache directory whose files hold any of StoreBlobs
InitStore ==
  /\ cache = EmptyDict
  /\ pending = <<>>
  /\ loading = FALSE
  /\ fallback \in {"None", "solver"}
  /\ store \in UNION {[K -> StoreBlobs] : K \in SUBSET Keys}
  /\ pc = [c \in Callers |-> "idle"]
  /\ op = [c \in Callers |-> NoCall]
  /\ ret = [c \in Callers |-> NoResult]
  /\ snap = NoSnap
  /\ queued_keys = {}
  /\ nops = 0
  /\ flushed = EmptyDict
  /\ parked = SecondInstance
  /\ probe = NoProbe

(***************************************************************************)
(* solve and get_strategy.                                                 *)
(***************************************************************************)
\* a faulty variant: the disk cache is preferred to the memory cache
MemoryHitDiskFirst(key) == key \in DOMAIN cache /\ key \notin DOMAIN store

\* a faulty variant: the memory cache is never consulted
MemoryHitNever(key) == FALSE

\* line 453: if key in self._cache
MemoryHit(key) == key \in DOMAIN cache

\* a faulty variant: the disk cache is never consulted
DiskHitNever(key) == FALSE

\* a faulty variant: a file that does not parse counts as no file
DiskHitIfParses(key) == key \in DOMAIN store /\ store[key].kind # "garbage"

\* a faulty variant: with a fallback solver the disk cache is skipped
DiskHitUnlessFallback(key) == key \in DOMAIN store /\ fallback = "None"

\* line 458: if cache_file.exists()
DiskHit(key) == key \in DOMAIN store

\* a faulty variant: the fallback is called without the None check
HasFallbackAlways == TRUE

\* line 464: if self._fallback_solver is not None
HasFallback == fallback # "None"

\* a faulty variant: every result is cached, however long it took
WithinTimeoutAlways(outcome) == TRUE

\* a faulty variant: the comparison is reversed
WithinTimeoutReversed(outcome) == ~outcome.fast

\* line 536: if elapsed < self._timeout
WithinTimeout(outcome) == outcome.fast

\* a faulty variant: a bare except
CaughtAny(error) == TRUE

\* line 542: except TimeoutError
CaughtAsTimeout(error) == error = "TimeoutError"

\* PrecomputedSolver.get_strategy after solve has returned `result`:
\* an error of solve propagates; a missing hand is a ValueError
GetStrategyResult(result, hand) ==
  IF result.kind # "Solution" THEN result
  ELSE LET got == SolutionGetStrategy(result.val, hand)
       IN IF got.found
          THEN [kind |-> "Strategy", tier |-> result.tier, val |-> got.strategy]
          ELSE [kind |-> "ValueError", tier |-> result.tier, val |-> hand]

\* caller c starts `call`: the callers are interchangeable threads, so a new
\* call runs on the first idle one; the results of earlier calls are forgotten
Started(c, call) ==
  /\ \A d \in Callers : d < c => pc[d] # "idle"
  /\ nops < MaxOps
  /\ nops' = nops + 1
  /\ op' = [d \in Callers |-> IF d = c THEN call
                               ELSE IF pc[d] = "idle" THEN NoCall ELSE op[d]]

Forget(c, result) ==
  [d \in Callers |-> IF d = c THEN result
                     ELSE IF pc[d] = "idle" THEN NoResult ELSE ret[d]]

\* the call of caller c ends with `result` of solve
Finish(c, result) ==
  /\ pc' = [pc EXCEPT ![c] = "idle"]
  /\ ret' = [ret EXCEPT ![c] = IF op[c].name = "get_strategy"
                               THEN GetStrategyResult(result, op[c].hand)
                               ELSE result]
  /\ snap' = NoSnap

\* lines 450-454: compute the key, try the memory cache
SolveBegin(c, name, game_state, hand) ==
  LET key == cache_key(game_state)
      call == [NoCall EXCEPT !.name = name, !.game_state = game_state,
                             !.key = key, !.hand = hand]
  IN /\ pc[c] = "idle"
     /\ Started(c, call)
     /\ IF MemoryHit(key)
        THEN /\ pc' = [pc EXCEPT ![c] = "idle"]
             /\ ret' = Forget(c, LET result == [kind |-> "Solution", tier |-> "memory",
                                                val |-> cache[key]]
                                 IN IF name = "get_strategy"
                                    THEN GetStrategyResult(result, hand)
                                    ELSE result)
             /\ snap' = NoSnap
        ELSE /\ pc' = [pc EXCEPT ![c] = "disk"]
             /\ ret' = Forget(c, NoResult)
             /\ snap' = Snapshot
     /\ UNCHANGED <<cache, pending, loading, fallback, store, queued_keys, flushed, probe, parked>>

solve(c, game_state) == SolveBegin(c, "solve", game_state, NoHand)

get_strategy(c, game_state, hand) == SolveBegin(c, "get_strategy", game_state, hand)

\* lines 456-468: the disk cache, then the fallback, then KeyError
SolveDisk(c) ==
  LET key == op[c].key
  IN /\ pc[c] = "disk"
     /\ IF DiskHit(key)
        THEN LET loaded == load_cached_solution(store[key], op[c].game_state)
             IN /\ op' = [op EXCEPT ![c].read_store = @ + 1]
                /\ IF loaded.ok
                   THEN /\ cache' = DictSet(cache, key, loaded.solution)
                        /\ Finish(c, [kind |-> "Solution", tier |-> "store",
                                      val |-> loaded.solution])
                   ELSE /\ cache' = cache
                        /\ Finish(c, [kind |-> loaded.error, tier |-> "store",
                                      val |-> key])
                /\ UNCHANGED loading
        ELSE IF HasFallback
        THEN \* _solve_with_fallback up to the call of the fallback solver
             /\ loading' = TRUE
             /\ op' = [op EXCEPT ![c].invoked = @ + 1]
             /\ pc' = [pc EXCEPT ![c] = "fallback"]
             /\ UNCHANGED <<cache, ret, snap>>
        ELSE /\ Finish(c, [kind |-> "KeyError", tier |-> "none", val |-> key])
             /\ UNCHANGED <<cache, loading, op>>
     /\ UNCHANGED <<pending, fallback, store, queued_keys, nops, flushed, probe, parked>>

\* a faulty variant: the result is queued but not put into the memory cache
CacheFallbackResultQueueOnly(key, solution) ==
  /\ cache' = cache
  /\ pending' = PendingSet(key, solution)
  /\ queued_keys' = queued_keys \cup {key}
  /\ store' = store

\* a faulty variant: write-through, the result goes to the store file at once
CacheFallbackResultWriteThrough(key, solution) ==
  /\ cache' = DictSet(cache, key, solution)
  /\ pending' = PendingSet(key, solution)
  /\ queued_keys' = queued_keys \cup {key}
  /\ store' = DictSet(store, key, SerializeSolution(solution))

\* lines 537-538: self._cache[cache_key] = solution and
\* self._pending_cache[cache_key] = solution; no file is written
CacheFallbackResult(key, solution) ==
  /\ cache' = DictSet(cache, key, solution)
  /\ pending' = PendingSet(key, solution)
  /\ queued_keys' = queued_keys \cup {key}
  /\ store' = store

\* lines 528-552: the fallback solver has returned or raised `outcome`
solve_with_fallback(c, outcome) ==
  LET key == op[c].key
      solution == SolverSolution(op[c].game_state, DefaultIterations)
  IN /\ pc[c] = "fallback"
     /\ op' = [op EXCEPT ![c].outcome = outcome]
     /\ IF outcome.kind = "return"
        THEN /\ IF WithinTimeout(outcome)
                THEN CacheFallbackResult(key, solution)
                ELSE UNCHANGED <<cache, pending, queued_keys, store>>
             /\ Finish(c, [kind |-> "Solution",
                           tier |-> IF outcome.fast THEN "fallback" ELSE "slow",
                           val |-> solution])
        ELSE /\ IF CaughtAsTimeout(outcome.error)
                THEN Finish(c, [kind |-> "Solution", tier |-> "timeout",
                                val |-> Placeholder(op[c].game_state)])
                ELSE Finish(c, [kind |-> outcome.error, tier |-> "raised", val |-> key])
             /\ UNCHANGED <<cache, pending, queued_keys, store>>
     /\ loading' = FALSE
     /\ UNCHANGED <<fallback, nops, flushed, probe, parked>>

(***************************************************************************)
(* flush_pending_cache: the loop over self._pending_cache.items() does one *)
(* file write per step; the dict iterator raises RuntimeError when the     *)
(* dict has changed size since the loop started.                           *)
(***************************************************************************)
\* lines 563-564: count = 0, the iterator is created
flush_pending_cache(c) ==
  /\ pc[c] = "idle"
  /\ Started(c, [NoCall EXCEPT !.name = "flush", !.pos = 1, !.used = Len(pending)])
  /\ pc' = [pc EXCEPT ![c] = "flush_iter"]
  /\ ret' = Forget(c, NoResult)
  /\ snap' = Snapshot
  /\ UNCHANGED <<cache, pending, loading, fallback, store, queued_keys, flushed, probe, parked>>

\* a faulty variant: a file that exists is left as it is
WriteFileIfAbsent(files, key, blob) ==
  IF key \in DOMAIN files THEN files ELSE DictSet(files, key, blob)

\* lines 575-576: open(cache_file, "w") truncates or creates the file and
\* json.dump fills it
WriteFile(files, key, blob) == DictSet(files, key, blob)

\* a faulty variant: count is not incremented
CountUnchanged(count) == count

\* line 577: count += 1
CountAfterWrite(count) == count + 1

\* lines 564-577: one turn of the loop
FlushNext(c) ==
  /\ pc[c] = "flush_iter"
  /\ IF Len(pending) # op[c].used
     THEN \* dictionary changed size during iteration
          /\ pc' = [pc EXCEPT ![c] = "idle"]
          /\ ret' = [ret EXCEPT ![c] = [kind |-> "RuntimeError", tier |-> "none",
                                        val |-> op[c].count]]
          /\ snap' = NoSnap
          /\ UNCHANGED <<op, store, pending, flushed>>
     ELSE IF op[c].pos > Len(pending)
     THEN \* the loop is over
          /\ pc' = [pc EXCEPT ![c] = "flush_clear"]
          /\ UNCHANGED <<op, store, pending, flushed, ret, snap>>
     ELSE LET entry == pending[op[c].pos]
          IN /\ store' = WriteFile(store, entry.key, SerializeSolution(entry.solution))
             /\ flushed' = DictSet(flushed, entry.key, entry.solution)
             /\ pending' = [pending EXCEPT ![op[c].pos].written = TRUE]
             /\ op' = [op EXCEPT ![c].pos = @ + 1, ![c].count = CountAfterWrite(@)]
             /\ UNCHANGED <<pc, ret, snap>>
  /\ UNCHANGED <<cache, loading, fallback, queued_keys, nops, probe, parked>>

\* lines 579-580: self._pending_cache.clear(); return count
FlushClear(c) ==
  /\ pc[c] = "flush_clear"
  /\ pending' = <<>>
  /\ queued_keys' = {}
  /\ pc' = [pc EXCEPT ![c] = "idle"]
  /\ ret' = [ret EXCEPT ![c] = [kind |-> "int", tier |-> "none", val |-> op[c].count]]
  /\ snap' = NoSnap
  /\ UNCHANGED <<cache, loading, fallback, store, op, nops, flushed, probe, parked>>

(***************************************************************************)
(* Specifications.  Spec: the callers are threads on one instance; their   *)
(* solve and flush_pending_cache calls interleave.  SpecSeq: one call at a *)
(* time, of solve, get_strategy or flush_pending_cache.                    *)
(***************************************************************************)
Next ==
  \E c \in Callers :
    \/ \E g \in DecisionPoints : solve(c, g)
    \/ SolveDisk(c)
    \/ \E o \in SolverOutcomes : solve_with_fallback(c, o)
    \/ flush_pending_cache(c)
    \/ FlushNext(c)
    \/ FlushClear(c)

Spec == Init /\ [][Next]_vars

AllIdle == \A c \in Callers : pc[c] = "idle"

NextSeq ==
  \E c \in Callers :
    \/ AllIdle /\ \E g \in DecisionPoints : solve(c, g)
    \/ AllIdle /\ \E g \in DecisionPoints, h \in Hands : get_strategy(c, g, h)
    \/ SolveDisk(c)
    \/ \E o \in SolverOutcomes : solve_with_fallback(c, o)
    \/ AllIdle /\ flush_pending_cache(c)
    \/ FlushNext(c)
    \/ FlushClear(c)

SpecSeq == Init /\ [][NextSeq]_vars

\* the process ends and a new one constructs a PrecomputedSolver on the
\* same cache directory: the files stay, memory cache and queue are empty
NewInstance(fallback_solver) ==
  /\ AllIdle
  /\ cache' = EmptyDict
  /\ pending' = <<>>
  /\ loading' = FALSE
  /\ fallback' = fallback_solver
  /\ queued_keys' = {}
  /\ op' = [c \in Callers |-> NoCall]
  /\ ret' = [c \in Callers |-> NoResult]
  /\ snap' = NoSnap
  /\ UNCHANGED <<store, pc, nops, flushed, probe, parked>>

NextRestart ==
  \/ NextSeq
  \/ \E f \in {"None", "solver"} : NewInstance(f)

\* one call at a time, across restarts
SpecRestart == Init /\ [][NextRestart]_vars

\* one call at a time on a cache directory with files of every kind
SpecStore == InitStore /\ [][NextSeq]_vars

(***************************************************************************)
(* _cache_key as a function of the decision point.  SpecKey draws a        *)
(* decision point a, derives a second one b from it and computes the keys  *)
(* of both.                                                                *)
(***************************************************************************)
\* the boards: the flops of a 12-card deck and the turns of an 8-card deck,
\* each in every order of its cards, and the rivers of the 8-card deck that
\* list the king of spades first
Deck3 == {"K", "7", "2"} \X Suit
Deck2 == {"K", "7"} \X Suit

BoardsOf(deck, n) ==
  {cards \in [1..n -> deck] : \A i, j \in 1..n : i # j => cards[i] # cards[j]}

Flops == BoardsOf(Deck3, 3)

Boards ==
  Flops \cup BoardsOf(Deck2, 4)
        \cup {cards \in BoardsOf(Deck2, 5) : cards[1] = <<"K", "s">>}

\* pot and effective stack, in big blinds
PotStacks ==
  {<<50, 100>>, <<75, 150>>, <<90, 180>>, <<100, 100>>, <<50, 250>>,
   <<5, 100>>, <<15, 100>>, <<0, 0>>, <<50, 0>>,
   <<50, 99>>, <<50, 199>>, <<50, 200>>}

BucketInputs ==
  {GameState(ps[1], ps[2], cards, pos) :
     ps \in PotStacks,
     cards \in {<<>>, <<<<"K", "s">>, <<"7", "s">>, <<"2", "h">>>>},
     pos \in {NoPosition, "BTN", "CO", "SB", "BB"}}

KeyInputs == BucketInputs \cup {GameState(50, 100, cards, NoPosition) : cards \in Boards}

\* the boards that a flop is paired with: the flops that start with the
\* king of spades and a seven, and the empty board
PairBoards ==
  {<<>>} \cup {cards \in Flops : cards[1] = <<"K", "s">> /\ cards[2][1] = "7"}

InitKey ==
  /\ cache = EmptyDict
  /\ pending = <<>>
  /\ loading = FALSE
  /\ fallback = "None"
  /\ store = EmptyDict
  /\ pc = [c \in Callers |-> "idle"]
  /\ op = [c \in Callers |-> NoCall]
  /\ ret = [c \in Callers |-> NoResult]
  /\ snap = NoSnap
  /\ queued_keys = {}
  /\ nops = 0
  /\ flushed = EmptyDict
  /\ parked = SecondInstance
  /\ probe \in {[NoProbe EXCEPT !.how = "input", !.a = g, !.b = g] : g \in KeyInputs}

\* a faulty variant: cards.sort(...) in place
BoardSortedInPlace(cards) == SortedByRank(cards)

\* line 388: sorted(cards, ...) builds a new list; game_state.board.cards is
\* as it was
BoardAfterKey(cards) == cards

\* the decision point after its key has been computed
AfterKey(game_state) == [game_state EXCEPT !.board = BoardAfterKey(@)]

\* self._cache_key(a) and self._cache_key(b): nothing of the instance changes
ComputeKeys(how, a, b) ==
  /\ probe' = [how |-> how, a |-> AfterKey(a), b |-> AfterKey(b),
               key_a |-> cache_key(a), key_b |-> cache_key(b), at |-> nops]
  /\ UNCHANGED <<cache, pending, loading, fallback, store, pc, op, ret, snap,
                 queued_keys, nops, flushed, parked>>

SuitBijections == {f \in [Suit -> Suit] : \A s, t \in Suit : f[s] = f[t] => s = t}

ApplySuits(f, cards) == [i \in 1..Len(cards) |-> <<cards[i][1], f[cards[i][2]]>>]

\* b is a with the suit of every board card replaced through f
PermuteSuits(f) ==
  /\ probe.how = "input"
  /\ probe.a.board # <<>>
  /\ ComputeKeys("suits", probe.a, [probe.a EXCEPT !.board = ApplySuits(f, @)])

SwapAt(cards, i, j) ==
  [k \in 1..Len(cards) |-> IF k = i THEN cards[j] ELSE IF k = j THEN cards[i] ELSE cards[k]]

\* b is a with the board cards at i and j listed in each other's place
SwapCards(i, j) ==
  /\ probe.how = "input"
  /\ i < j
  /\ j <= Len(probe.a.board)
  /\ ComputeKeys("order", probe.a, [probe.a EXCEPT !.board = SwapAt(@, i, j)])

\* b is another decision point
OtherPoint(h) ==
  /\ probe.how = "input"
  /\ probe.a \in BucketInputs
  /\ ComputeKeys("other", probe.a, h)

\* b is a with another board
OtherBoard(cards) ==
  /\ probe.how = "input"
  /\ probe.a.board \in Flops
  /\ ComputeKeys("other", probe.a, [probe.a EXCEPT !.board = cards])

NextKey ==
  \/ \E f \in SuitBijections : PermuteSuits(f)
  \/ \E i, j \in 1..5 : SwapCards(i, j)
  \/ \E h \in BucketInputs : OtherPoint(h)
  \/ \E cards \in PairBoards : OtherBoard(cards)

SpecKey == InitKey /\ [][NextKey]_vars

(***************************************************************************)
(* SpecKeyOps: the key of one decision point is computed, and computed     *)
(* again after any calls of solve, get_strategy and flush_pending_cache.   *)
(***************************************************************************)
\* the decision points whose key is computed twice: one has a board that is
\* not listed in rank order
KeyPoints ==
  DecisionPoints
  \cup {GameState(50, 100, <<<<"7", "s">>, <<"K", "h">>, <<"K", "s">>>>, "BTN")}

\* self._cache_key(g): a keeps the decision point as it was passed, b is
\* the object after the call
KeyFirst(g) ==
  /\ AllIdle
  /\ probe.how = "none"
  /\ probe' = [how |-> "first", a |-> g, b |-> AfterKey(g),
               key_a |-> cache_key(g), key_b |-> <<>>, at |-> nops]
  /\ UNCHANGED <<cache, pending, loading, fallback, store, pc, op, ret, snap,
                 queued_keys, nops, flushed, parked>>

\* self._cache_key of the same object, a second time
KeyAgain ==
  /\ AllIdle
  /\ probe.how = "first"
  /\ probe' = [probe EXCEPT !.how = "again", !.b = AfterKey(probe.b),
                            !.key_b = cache_key(probe.b)]
  /\ UNCHANGED <<cache, pending, loading, fallback, store, pc, op, ret, snap,
                 queued_keys, nops, flushed, parked>>

NextKeyOps ==
  \/ NextSeq
  \/ \E g \in KeyPoints : KeyFirst(g)
  \/ KeyAgain

SpecKeyOps == Init /\ [][NextKeyOps]_vars

(***************************************************************************)
(* Vocabulary of the properties.                                           *)
(***************************************************************************)
\* this step starts a call of caller c
Begun(c) == pc[c] = "idle" /\ nops' = nops + 1 /\ op'[c].name # "none"

\* this step ends a call of caller c (a memory hit starts and ends it)
Returned(c) == op'[c].name # "none" /\ pc'[c] = "idle" /\ (pc[c] # "idle" \/ Begun(c))

\* cache, pending and store as they were when the call that this step
\* continues was started
Before ==
  IF snap.taken THEN snap
  ELSE [taken |-> TRUE, cache |-> cache, pending |-> pending, store |-> store]

\* caller c is idle and its last call was solve
Solved(c) == pc[c] = "idle" /\ op[c].name = "solve"

\* the blob holds exactly the strategies, EVs, convergence and iterations
\* of the solution (a field the blob lacks stands for its default)
SamePayload(blob, solution) ==
  /\ blob.kind = "object"
  /\ "strategies" \in DOMAIN blob.data
  /\ DOMAIN blob.data.strategies = DOMAIN solution.strategies
  /\ \A h \in DOMAIN solution.strategies :
       LET actions == solution.strategies[h].actions
           freqs == blob.data.strategies[h]
       IN /\ HandStr(solution.strategies[h].hand) = h
          /\ {ActionType[a] : a \in DOMAIN actions} = DOMAIN freqs
          /\ \A a \in DOMAIN actions : actions[a] = freqs[ActionType[a]]
  /\ solution.ev = (IF "ev" \in DOMAIN blob.data THEN blob.data.ev ELSE EmptyDict)
  /\ solution.convergence =
       (IF "convergence" \in DOMAIN blob.data THEN blob.data.convergence ELSE "0.0")
  /\ solution.iterations =
       (IF "iterations" \in DOMAIN blob.data THEN blob.data.iterations ELSE 0)

(***************************************************************************)
(* C1  Tier precedence.  A solve for a key that is in the memory cache     *)
(* returns the Solution cached there at once: it reads no store file and   *)
(* does not invoke the fallback solver, whatever blob the store holds for  *)
(* the key.                                                                *)
(***************************************************************************)
TierPrecedence ==
  [][\A c \in Callers :
       (/\ Begun(c)
        /\ op'[c].name = "solve"
        /\ cache_key(op'[c].game_state) \in DOMAIN cache)
       => (/\ Returned(c)
           /\ ret'[c].kind = "Solution"
           /\ ret'[c].val = cache[cache_key(op'[c].game_state)]
           /\ op'[c].read_store = 0
           /\ op'[c].invoked = 0
           /\ UNCHANGED <<cache, pending, store, loading>>)]_vars

\* a solve was answered from memory while the store holds other strategies
TierPrecedenceWitness ==
  \E c \in Callers :
    /\ Solved(c)
    /\ ret[c].tier = "memory"
    /\ op[c].key \in DOMAIN store
    /\ ~SamePayload(store[op[c].key], ret[c].val)

(***************************************************************************)
(* C2  Fallback caching, one call at a time.  A solve that found its key   *)
(* neither in the memory cache nor in the store, with a fallback solver    *)
(* that returns within the timeout, invokes the solver once and returns    *)
(* its result; afterwards the key maps to that result in the memory cache  *)
(* and in the pending-write queue.  A key in the memory cache stays there  *)
(* with its Solution, and a solve for any decision point with that key is  *)
(* answered without invoking the solver.                                   *)
(***************************************************************************)
FallbackCaching ==
  [][/\ \A c \in Callers :
          (/\ Returned(c)
           /\ op'[c].name = "solve"
           /\ op'[c].key \notin DOMAIN Before.cache
           /\ op'[c].key \notin DOMAIN Before.store
           /\ fallback # "None"
           /\ op'[c].outcome.kind = "return"
           /\ op'[c].outcome.fast)
          => (/\ op'[c].invoked = 1
              /\ ret'[c].kind = "Solution"
              /\ ret'[c].val = SolverSolution(op'[c].game_state, DefaultIterations)
              /\ op'[c].key \in DOMAIN cache'
              /\ cache'[op'[c].key] = ret'[c].val
              /\ op'[c].key \in PendingKeys'
              /\ PendingDict'[op'[c].key] = ret'[c].val)
     /\ \A c, d \in Callers :
          (/\ Solved(c)
           /\ op[c].outcome.kind = "return"
           /\ op[c].outcome.fast
           /\ Begun(d)
           /\ op'[d].name = "solve"
           /\ cache_key(op'[d].game_state) = cache_key(op[c].game_state))
          => (/\ Returned(d)
              /\ op'[d].invoked = 0
              /\ ret'[d].kind = "Solution"
              /\ ret'[d].val = ret[c].val)
     /\ \A k \in DOMAIN cache : k \in DOMAIN cache' /\ cache'[k] = cache[k]
     /\ \A d \in Callers :
          (Begun(d) /\ cache_key(op'[d].game_state) \in DOMAIN cache)
          => (Returned(d) /\ op'[d].invoked = 0)]_vars

\* a solve for another decision point with the key of a queued fallback
\* result has just been answered from memory
FallbackCachingWitness ==
  \E c \in Callers :
    /\ Solved(c)
    /\ ret[c].tier = "memory"
    /\ op[c].invoked = 0
    /\ op[c].key \in PendingKeys
    /\ PendingDict[op[c].key] = ret[c].val
    /\ ret[c].val.game_state # op[c].game_state

(***************************************************************************)
(* C3  Timeout placeholder.  When the fallback solver reports a timeout    *)
(* (the builtin TimeoutError or subprocess.TimeoutExpired), solve returns  *)
(* the placeholder Solution (no strategies, infinite convergence, zero     *)
(* iterations) and leaves memory cache and pending queue as they were; the *)
(* next solve for the key misses the memory cache; no placeholder is ever  *)
(* in the memory cache, the pending queue or the store.                    *)
(***************************************************************************)
NoPlaceholderKept ==
  /\ \A k \in DOMAIN cache : ~IsPlaceholder(cache[k])
  /\ \A i \in 1..Len(pending) : ~IsPlaceholder(pending[i].solution)
  /\ \A k \in DOMAIN store : ~SamePayload(store[k], Placeholder(NoGameState))

TimeoutKeeps(errors) ==
  /\ \A c \in Callers :
       (/\ Returned(c)
        /\ op'[c].name = "solve"
        /\ op'[c].outcome.kind = "raise"
        /\ op'[c].outcome.error \in errors)
       => (/\ ret'[c].kind = "Solution"
           /\ ret'[c].val = Placeholder(op'[c].game_state)
           /\ IsPlaceholder(ret'[c].val)
           /\ cache' = Before.cache
           /\ pending' = Before.pending)
  /\ \A c, d \in Callers :
       (/\ Solved(c)
        /\ op[c].outcome.kind = "raise"
        /\ op[c].outcome.error \in errors
        /\ Begun(d)
        /\ op'[d].name = "solve"
        /\ cache_key(op'[d].game_state) = cache_key(op[c].game_state))
       => pc'[d] = "disk"
  /\ \A d \in Callers :
       (/\ pc[d] = "disk"
        /\ pc'[d] # "disk"
        /\ op[d].key \notin DOMAIN store
        /\ fallback # "None")
       => (pc'[d] = "fallback" /\ op'[d].invoked = 1)
  /\ NoPlaceholderKept'

TimeoutPlaceholder == [][TimeoutKeeps(TimeoutErrors)]_vars

\* the same for the builtin TimeoutError alone
TimeoutPlaceholderBuiltin == [][TimeoutKeeps({"TimeoutError"})]_vars

(***************************************************************************)
(* C4  Single-flight.  No two callers are in the fallback solver for the   *)
(* same key at the same time.                                              *)
(***************************************************************************)
SingleFlight ==
  \A c, d \in Callers :
    (c # d /\ pc[c] = "fallback" /\ pc[d] = "fallback") => op[c].key # op[d].key

(***************************************************************************)
(* C5  Atomic flush.  When a flush clears the pending queue, every entry   *)
(* it removes has been written to the store; and a flush never writes an   *)
(* entry that a flush has written already.                                 *)
(***************************************************************************)
AtomicFlush ==
  [][\A c \in Callers :
       /\ (pc[c] = "flush_clear" /\ pc'[c] = "idle")
          => \A i \in 1..Len(pending) : pending[i].written
       /\ (pc[c] = "flush_iter" /\ op'[c].count # op[c].count)
          => ~pending[op[c].pos].written]_vars

(***************************************************************************)
(* C6  flush_pending_cache, one call at a time.  It writes the blob of     *)
(* every entry of the pending queue to the store under the entry's key,    *)
(* leaves the queue empty and returns the number of entries, which is the  *)
(* number of distinct keys queued since the previous flush.                *)
(***************************************************************************)
FlushWritesAll ==
  [][\A c \in Callers :
       (Returned(c) /\ op'[c].name = "flush")
       => (/\ ret'[c].kind = "int"
           /\ ret'[c].val = Len(Before.pending)
           /\ ret'[c].val = Cardinality(queued_keys)
           /\ ret'[c].val = Cardinality({Before.pending[i].key : i \in 1..Len(Before.pending)})
           /\ pending' = <<>>
           /\ \A i \in 1..Len(Before.pending) :
                /\ Before.pending[i].key \in DOMAIN store'
                /\ SamePayload(store'[Before.pending[i].key], Before.pending[i].solution)
           /\ \A k \in DOMAIN store' :
                k \notin {Before.pending[i].key : i \in 1..Len(Before.pending)}
                => (k \in DOMAIN Before.store /\ store'[k] = Before.store[k]))]_vars

\* a flush of two queued results has just returned 2
FlushWritesAllWitness ==
  \E c \in Callers :
    /\ pc[c] = "idle"
    /\ op[c].name = "flush"
    /\ ret[c].kind = "int"
    /\ ret[c].val = 2
    /\ pending = <<>>
    /\ Cardinality(DOMAIN store) >= 2

(***************************************************************************)
(* C7  Only a flush changes the store: every step that changes the set or  *)
(* the contents of the store blobs is a step of flush_pending_cache, none  *)
(* is a step of solve or get_strategy.                                     *)
(***************************************************************************)
OnlyFlushWrites ==
  [][store' # store
     => \E c \in Callers :
          /\ op[c].name = "flush"
          /\ pc[c] = "flush_iter"
          /\ op'[c].count # op[c].count]_vars

\* a solve that ran the fallback solver has returned and its key has no blob
OnlyFlushWritesWitness ==
  \E c \in Callers :
    /\ pc[c] = "idle"
    /\ op[c].name \in {"solve", "get_strategy"}
    /\ op[c].outcome.kind = "return"
    /\ op[c].outcome.fast
    /\ op[c].key \in PendingKeys
    /\ op[c].key \notin DOMAIN store

(***************************************************************************)
(* C8  Store hit.  A solve whose key is not in the memory cache but has a  *)
(* blob in the store that deserializes returns the Solution that the blob  *)
(* describes, for the game state asked about, puts it into the memory      *)
(* cache under the key and does not invoke the fallback solver, configured *)
(* or not.                                                                 *)
(***************************************************************************)
StoreHit ==
  [][\A c \in Callers :
       (/\ Returned(c)
        /\ op'[c].name = "solve"
        /\ op'[c].key \notin DOMAIN Before.cache
        /\ op'[c].key \in DOMAIN Before.store
        /\ load_cached_solution(Before.store[op'[c].key], op'[c].game_state).ok)
       => (/\ ret'[c].kind = "Solution"
           /\ SamePayload(Before.store[op'[c].key], ret'[c].val)
           /\ ret'[c].val.game_state = op'[c].game_state
           /\ cache' = DictSet(Before.cache, op'[c].key, ret'[c].val)
           /\ pending' = Before.pending
           /\ op'[c].invoked = 0)]_vars

\* a solve has just been answered from the store although a fallback solver
\* is configured
StoreHitWitness ==
  \E c \in Callers :
    /\ Solved(c)
    /\ ret[c].tier = "store"
    /\ fallback # "None"
    /\ op[c].invoked = 0
    /\ cache[op[c].key] = ret[c].val

(***************************************************************************)
(* C9  No-fallback miss.  A solve whose key is neither in the memory cache *)
(* nor in the store, on a solver without fallback, fails with KeyError     *)
(* carrying the key, and leaves memory cache and pending queue unchanged.  *)
(***************************************************************************)
NoFallbackMiss ==
  [][\A c \in Callers :
       (/\ Returned(c)
        /\ op'[c].name = "solve"
        /\ op'[c].key \notin DOMAIN Before.cache
        /\ op'[c].key \notin DOMAIN Before.store
        /\ fallback = "None")
       => (/\ ret'[c].kind = "KeyError"
           /\ ret'[c].val = cache_key(op'[c].game_state)
           /\ op'[c].invoked = 0
           /\ cache' = Before.cache
           /\ pending' = Before.pending)]_vars

\* a solve has just failed with KeyError
NoFallbackMissWitness ==
  \E c \in Callers :
    /\ Solved(c)
    /\ ret[c].kind = "KeyError"
    /\ fallback = "None"
    /\ op[c].key \notin DOMAIN cache
    /\ op[c].key \notin DOMAIN store

(***************************************************************************)
(* C10  Solver failure.  When the fallback solver raises an error that is  *)
(* no timeout, solve raises that error, and memory cache and pending queue *)
(* are left unchanged.                                                     *)
(***************************************************************************)
SolverFailurePropagates ==
  [][\A c \in Callers :
       (/\ Returned(c)
        /\ op'[c].name = "solve"
        /\ op'[c].outcome.kind = "raise"
        /\ op'[c].outcome.error \notin TimeoutErrors)
       => (/\ ret'[c].kind = op'[c].outcome.error
           /\ cache' = Before.cache
           /\ pending' = Before.pending)]_vars

\* a solve has just failed with the solver's RuntimeError
SolverFailurePropagatesWitness ==
  \E c \in Callers :
    /\ Solved(c)
    /\ op[c].outcome.error = "RuntimeError"
    /\ ret[c].kind = "RuntimeError"
    /\ op[c].key \notin DOMAIN cache

(***************************************************************************)
(* C11  Slow result.  When the fallback solver returns its result but not  *)
(* within the timeout, solve returns that result, and the memory cache,    *)
(* the pending queue and the queue's keys are as they were before the      *)
(* call; the next solve for the key misses the memory cache, and a solve   *)
(* that also finds no store file invokes the solver.                       *)
(***************************************************************************)
SlowResultNotCached ==
  [][/\ \A c \in Callers :
          (/\ Returned(c)
           /\ op'[c].name = "solve"
           /\ op'[c].outcome.kind = "return"
           /\ ~op'[c].outcome.fast)
          => (/\ ret'[c].kind = "Solution"
              /\ ret'[c].val = SolverSolution(op'[c].game_state, DefaultIterations)
              /\ cache' = Before.cache
              /\ pending' = Before.pending
              /\ store' = Before.store
              /\ op'[c].key \notin DOMAIN cache'
              /\ op'[c].key \notin PendingKeys')
     /\ \A c, d \in Callers :
          (/\ Solved(c)
           /\ op[c].outcome.kind = "return"
           /\ ~op[c].outcome.fast
           /\ Begun(d)
           /\ op'[d].name = "solve"
           /\ cache_key(op'[d].game_state) = cache_key(op[c].game_state))
          => pc'[d] = "disk"
     /\ \A d \in Callers :
          (/\ pc[d] = "disk"
           /\ pc'[d] # "disk"
           /\ op[d].key \notin DOMAIN store
           /\ fallback # "None")
          => (pc'[d] = "fallback" /\ op'[d].invoked = 1)]_vars

\* a solve has just returned a slow result after an earlier solve for the
\* key had returned a slow result too, and nothing is cached or queued
SlowResultNotCachedWitness ==
  \E c \in Callers :
    /\ Solved(c)
    /\ ret[c].tier = "slow"
    /\ nops >= 2
    /\ cache = EmptyDict
    /\ pending = <<>>
    /\ op[c].key \notin DOMAIN store

(***************************************************************************)
(* C12  No timeout is raised.  Whatever the fallback backend, a solve in   *)
(* which the fallback solver reports a timeout (the builtin TimeoutError   *)
(* or the TimeoutExpired of a solver subprocess that ran over 300 s) does  *)
(* not end with an error: it returns the placeholder Solution.             *)
(***************************************************************************)
TimeoutNeverRaised ==
  [][\A c \in Callers :
       (/\ Returned(c)
        /\ op'[c].name = "solve"
        /\ pc[c] = "fallback"
        /\ op'[c].outcome.kind = "raise"
        /\ op'[c].outcome.error \in TimeoutErrors)
       => (/\ ret'[c].kind \notin SolverErrors
           /\ ret'[c].kind = "Solution"
           /\ IsPlaceholder(ret'[c].val))]_vars

(***************************************************************************)
(* C13  Corrupt store entry.  A solve whose key is not in the memory cache *)
(* and whose store file does not parse fails with the parse error          *)
(* (JSONDecodeError), not with KeyError; it has read the file, has not     *)
(* invoked the fallback solver, and leaves memory cache and pending queue  *)
(* unchanged.                                                              *)
(***************************************************************************)
CorruptStoreEntry ==
  [][\A c \in Callers :
       (/\ Returned(c)
        /\ op'[c].name = "solve"
        /\ op'[c].key \notin DOMAIN Before.cache
        /\ op'[c].key \in DOMAIN Before.store
        /\ Before.store[op'[c].key] = GarbageBlob)
       => (/\ ret'[c].kind = "JSONDecodeError"
           /\ ret'[c].kind # "KeyError"
           /\ op'[c].read_store = 1
           /\ op'[c].invoked = 0
           /\ cache' = Before.cache
           /\ pending' = Before.pending
           /\ store' = Before.store)]_vars

\* a solve has just failed with the parse error although a fallback solver
\* is configured
CorruptStoreEntryWitness ==
  \E c \in Callers :
    /\ Solved(c)
    /\ ret[c].kind = "JSONDecodeError"
    /\ store[op[c].key] = GarbageBlob
    /\ fallback # "None"
    /\ op[c].key \notin DOMAIN cache

(***************************************************************************)
(* C14  Structurally invalid store blob.  A solve whose key is not in the  *)
(* memory cache and whose store file holds JSON that is no object, or an   *)
(* object without "strategies", fails with an error: it returns no         *)
(* Solution, and the memory cache is unchanged.                            *)
(***************************************************************************)
InvalidBlobFails ==
  [][\A c \in Callers :
       (/\ Returned(c)
        /\ op'[c].name = "solve"
        /\ op'[c].key \notin DOMAIN Before.cache
        /\ op'[c].key \in DOMAIN Before.store
        /\ \/ Before.store[op'[c].key].kind = "array"
           \/ /\ Before.store[op'[c].key].kind = "object"
              /\ "strategies" \notin DOMAIN Before.store[op'[c].key].data)
       => (/\ ret'[c].kind # "Solution"
           /\ cache' = Before.cache)]_vars

(***************************************************************************)
(* C15  Round trip across restarts.  Once a flush has written the queued   *)
(* fallback result of a key, a solve on a fresh instance (the key is not   *)
(* in its memory cache) for a decision point with that key returns a       *)
(* Solution without invoking a fallback solver, with the same hands, the   *)
(* same frequency of every action of every hand, the same EVs, the same    *)
(* convergence and the same iterations as the Solution that was flushed.   *)
(***************************************************************************)
SameContents(loaded, written) ==
  /\ DOMAIN loaded.strategies = DOMAIN written.strategies
  /\ \A h \in DOMAIN written.strategies :
       /\ loaded.strategies[h].hand = written.strategies[h].hand
       /\ DOMAIN loaded.strategies[h].actions = DOMAIN written.strategies[h].actions
       /\ \A a \in DOMAIN written.strategies[h].actions :
            loaded.strategies[h].actions[a] = written.strategies[h].actions[a]
  /\ loaded.ev = written.ev
  /\ loaded.convergence = written.convergence
  /\ loaded.iterations = written.iterations

RoundTrip ==
  [][\A c \in Callers :
       (/\ Returned(c)
        /\ op'[c].name = "solve"
        /\ op'[c].key \notin DOMAIN Before.cache
        /\ op'[c].key \in DOMAIN flushed)
       => (/\ ret'[c].kind = "Solution"
           /\ op'[c].invoked = 0
           /\ SameContents(ret'[c].val, flushed[op'[c].key]))]_vars

\* a fresh instance has just answered from the store file that a flush
\* wrote for another decision point with the same key
RoundTripWitness ==
  \E c \in Callers :
    /\ Solved(c)
    /\ ret[c].tier = "store"
    /\ op[c].key \in DOMAIN flushed
    /\ DOMAIN ret[c].val.strategies # {}
    /\ ret[c].val.strategies = flushed[op[c].key].strategies
    /\ ret[c].val.game_state # flushed[op[c].key].game_state

(***************************************************************************)
(* The ingredients of the key, stated on the decision point.               *)
(***************************************************************************)
\* floor(effective_stack / 100) * 100, and 100 in place of 0
StackBucket(g) ==
  LET floor100 == (g.effective_stack \div 100) * 100
  IN IF floor100 = 0 THEN 100 ELSE floor100

\* ten times pot / stack * 10 rounded to the nearest integer, to the even
\* one of two nearest integers; 0 for an empty stack
PotBucket(g) ==
  IF g.effective_stack = 0 THEN 0
  ELSE LET s == g.effective_stack
           x == 10 * g.pot
           near == {n \in {x \div s, x \div s + 1} :
                      2 * (n * s - x) <= s /\ 2 * (x - n * s) <= s}
       IN 10 * (CHOOSE n \in near : Cardinality(near) = 1 \/ n % 2 = 0)

PositionClass(g) ==
  IF g.hero_position = NoPosition THEN "unk"
  ELSE IF g.hero_position \in {"BTN", "CO", "HJ"} THEN "ip"
  ELSE "oop"

\* the boards hold the same ranks with the same suit-sharing pattern: some
\* bijection of the suits turns the cards of one into the cards of the other
SameBoardShape(x, y) ==
  /\ Len(x) = Len(y)
  /\ \E f \in SuitBijections : Range(ApplySuits(f, x)) = Range(y)

Paired(cards) == \E i, j \in 1..Len(cards) : i # j /\ cards[i][1] = cards[j][1]

(***************************************************************************)
(* C16  Suit isomorphism.  For every board of 3 to 5 cards, paired boards  *)
(* included, and every bijection of the four suits, the decision point     *)
(* whose board cards have their suits replaced through the bijection, in   *)
(* the same order, has the key of the original.                            *)
(***************************************************************************)
SuitIsomorphism ==
  probe.how = "suits" => probe.key_a = probe.key_b

\* the keys of a paired five-card board in four suits and of its image under
\* a bijection that moves every suit have been computed
SuitIsomorphismWitness ==
  /\ probe.how = "suits"
  /\ Len(probe.a.board) = 5
  /\ Paired(probe.a.board)
  /\ Cardinality({probe.a.board[i][2] : i \in 1..5}) = 4
  /\ \A i \in 1..5 : probe.a.board[i][2] # probe.b.board[i][2]
  /\ probe.key_a = probe.key_b

(***************************************************************************)
(* C17  Order independence.  Two decision points whose boards list the     *)
(* same cards in different orders, boards with two cards of one rank       *)
(* included, have the same key.                                            *)
(***************************************************************************)
OrderIndependence ==
  probe.how = "order" => probe.key_a = probe.key_b

(***************************************************************************)
(* C18  Key separation.  Two decision points that differ in the stack      *)
(* bucket, in the pot bucket, in the board (its ranks or its suit-sharing  *)
(* pattern, or one empty and one not) or in the position class have        *)
(* different keys.                                                         *)
(***************************************************************************)
Differ(g, h) ==
  \/ StackBucket(g) # StackBucket(h)
  \/ PotBucket(g) # PotBucket(h)
  \/ PositionClass(g) # PositionClass(h)
  \/ ~SameBoardShape(g.board, h.board)

KeySeparation ==
  probe.how # "input"
  => (probe.key_a # probe.key_b \/ ~Differ(probe.a, probe.b))

\* the keys of two flops with the same ranks, both with two cards of one
\* suit, but not the same two, have been computed
KeySeparationWitness ==
  /\ probe.how = "other"
  /\ Len(probe.a.board) = 3
  /\ Len(probe.b.board) = 3
  /\ \A i \in 1..3 : probe.a.board[i][1] = probe.b.board[i][1]
  /\ get_board_texture(SuitCounts(probe.a.board)) = "fd"
  /\ get_board_texture(SuitCounts(probe.b.board)) = "fd"
  /\ ~SameBoardShape(probe.a.board, probe.b.board)
  /\ probe.key_a # probe.key_b

(***************************************************************************)
(* C19  Bucket equivalence.  Two decision points with the same stack       *)
(* bucket, the same pot bucket, the same board and the same position class *)
(* have the same key, whatever their pots, stacks and positions.           *)
(***************************************************************************)
BucketEquivalence ==
  probe.how # "input"
  => ((/\ StackBucket(probe.a) = StackBucket(probe.b)
       /\ PotBucket(probe.a) = PotBucket(probe.b)
       /\ probe.a.board = probe.b.board
       /\ PositionClass(probe.a) = PositionClass(probe.b))
      => probe.key_a = probe.key_b)

\* the keys of pot 75 / stack 150 on the button and of pot 90 / stack 180 in
\* the cutoff, on the same flop, have been computed and are equal
BucketEquivalenceWitness ==
  /\ probe.how = "other"
  /\ probe.a.pot = 75 /\ probe.a.effective_stack = 150 /\ probe.a.hero_position = "BTN"
  /\ probe.b.pot = 90 /\ probe.b.effective_stack = 180 /\ probe.b.hero_position = "CO"
  /\ probe.a.board # <<>>
  /\ probe.a.board = probe.b.board
  /\ probe.key_a = probe.key_b

ResolvedSolution(c) ==
  CASE ret'[c].tier = "memory" -> Before.cache[op'[c].key]
    [] ret'[c].tier = "store" -> cache'[op'[c].key]
    [] ret'[c].tier = "fallback" -> cache'[op'[c].key]
    [] ret'[c].tier = "slow" -> SolverSolution(op'[c].game_state, DefaultIterations)
    [] OTHER -> Placeholder(op'[c].game_state)

SolutionTiers == {"memory", "store", "fallback", "slow", "timeout"}

StrategyForHand ==
  [][\A c \in Callers :
       (/\ Returned(c)
        /\ op'[c].name = "get_strategy"
        /\ ret'[c].tier \in SolutionTiers
        /\ ret'[c].tier = "store"
             => load_cached_solution(Before.store[op'[c].key], op'[c].game_state).ok)
       => LET strategies == ResolvedSolution(c).strategies
              hand_str == HandStr(op'[c].hand)
          IN /\ ret'[c].tier = "timeout" => ret'[c].kind = "ValueError"
             /\ IF hand_str \in DOMAIN strategies
                THEN /\ ret'[c].kind = "Strategy"
                     /\ ret'[c].val = strategies[hand_str]
                ELSE ret'[c].kind = "ValueError"]_vars

\* a get_strategy call has just failed with ValueError on the placeholder
\* of a timed-out solve
StrategyForHandWitness ==
  \E c \in Callers :
    /\ pc[c] = "idle"
    /\ op[c].name = "get_strategy"
    /\ ret[c].tier = "timeout"
    /\ ret[c].kind = "ValueError"

(***************************************************************************)
(* C22  Loading state.  is_loading is true exactly while at least one      *)
(* invocation of the fallback solver is in progress on the instance: false *)
(* before any solve and after every solve that has returned or raised,     *)
(* and, with overlapping solve calls, true until the last invocation in    *)
(* flight has finished.                                                    *)
(***************************************************************************)
\* lines 422-425: the property is_loading returns self._loading
is_loading == loading

\* caller c is inside the fallback solver
InFallback(c) == pc[c] = "fallback"

LoadingExact == is_loading <=> \E c \in Callers : InFallback(c)

(***************************************************************************)
(* The cache directory is shared with whoever else can write to it.        *)
(* SpecEdit runs one call at a time and lets files be written by hand or   *)
(* removed between the calls.                                              *)
(***************************************************************************)
\* a file <key>.json is written by hand, as the tests do
StoreWrite(key, blob) ==
  /\ IF key \in DOMAIN store THEN store[key] # blob ELSE TRUE
  /\ store' = DictSet(store, key, blob)
  /\ UNCHANGED <<cache, pending, loading, fallback, pc, op, ret, snap,
                 queued_keys, nops, flushed, probe, parked>>

\* a file <key>.json is removed: cache_file.exists() is false from now on
StoreDelete(key) ==
  /\ key \in DOMAIN store
  /\ store' = [k \in DOMAIN store \ {key} |-> store[k]]
  /\ UNCHANGED <<cache, pending, loading, fallback, pc, op, ret, snap,
                 queued_keys, nops, flushed, probe, parked>>

NextEdit ==
  \/ NextSeq
  \/ AllIdle /\ \E k \in Keys, blob \in {SampleBlob, GarbageBlob} : StoreWrite(k, blob)
  \/ AllIdle /\ \E k \in Keys : StoreDelete(k)

SpecEdit == Init /\ [][NextEdit]_vars

(***************************************************************************)
(* C23  Append-only memory cache.  Once a key is in the memory cache, no   *)
(* sequence of solve, get_strategy and flush_pending_cache calls on the    *)
(* instance removes it or replaces its Solution, and every later solve for *)
(* the key returns that Solution, also when the file of the key has been   *)
(* changed or removed in the meantime.                                     *)
(***************************************************************************)
AppendOnly ==
  [][/\ \A k \in DOMAIN cache : k \in DOMAIN cache' /\ cache'[k] = cache[k]
     /\ \A c \in Callers :
          (/\ Returned(c)
           /\ op'[c].name = "solve"
           /\ op'[c].key \in DOMAIN Before.cache)
          => (/\ ret'[c].kind = "Solution"
              /\ ret'[c].val = Before.cache[op'[c].key])]_vars

\* a solve has just returned the Solution of the memory cache for a key
\* whose file was written by flush_pending_cache and is gone or holds
\* something else by now
AppendOnlyWitness ==
  \E c \in Callers :
    /\ Solved(c)
    /\ ret[c].tier = "memory"
    /\ op[c].key \in DOMAIN flushed
    /\ ret[c].val = flushed[op[c].key]
    /\ (op[c].key \notin DOMAIN store
          \/ store[op[c].key] # SerializeSolution(flushed[op[c].key]))

(***************************************************************************)
(* Vocabulary of the loading properties.                                   *)
(***************************************************************************)
\* this step ends a solve of caller c that read the file of its key, a JSON
\* object with a "strategies" field
LoadedStrategies(c) ==
  /\ Returned(c)
  /\ op'[c].name = "solve"
  /\ op'[c].key \notin DOMAIN Before.cache
  /\ op'[c].key \in DOMAIN Before.store
  /\ Before.store[op'[c].key].kind = "object"
  /\ "strategies" \in DOMAIN Before.store[op'[c].key].data

\* the "strategies" field of that file
RawStrategies(c) == Before.store[op'[c].key].data.strategies

\* the action names the program knows
KnownActionNames == {ActionType[a] : a \in ActionTypeMembers}

(***************************************************************************)
(* C24  No partial deserialization.  Loading a store blob either yields a  *)
(* Solution that holds every hand entry of the blob's strategies map or    *)
(* fails with an error; a hand key that does not parse as a hand makes the *)
(* load fail and is never silently left out of the Solution.               *)
(***************************************************************************)
NoPartialLoad ==
  [][\A c \in Callers :
       LoadedStrategies(c)
       => \/ ret'[c].kind # "Solution"
          \/ DOMAIN ret'[c].val.strategies = DOMAIN RawStrategies(c)]_vars

(***************************************************************************)
(* C25  Unknown action names.  When a hand's entry in a store blob holds   *)
(* an action name that is none of the known action kinds, the load         *)
(* succeeds, drops that action only and keeps the hand with the            *)
(* frequencies of all its known actions as they are in the blob.           *)
(***************************************************************************)
UnknownActionsDropped ==
  [][\A c \in Callers :
       LoadedStrategies(c)
       => /\ ret'[c].kind = "Solution"
          /\ \A h \in DOMAIN RawStrategies(c) :
               HandParses(h)
               => /\ h \in DOMAIN ret'[c].val.strategies
                  /\ LET actions == ret'[c].val.strategies[h].actions
                         raw == RawStrategies(c)[h]
                     IN /\ {ActionType[a] : a \in DOMAIN actions}
                             = DOMAIN raw \cap KnownActionNames
                        /\ \A a \in DOMAIN actions : actions[a] = raw[ActionType[a]]]_vars

\* a solve has just loaded the file with the action name "limp": the hand is
\* there with its raise frequency and nothing else
UnknownActionsDroppedWitness ==
  \E c \in Callers :
    /\ Solved(c)
    /\ ret[c].tier = "store"
    /\ ret[c].kind = "Solution"
    /\ op[c].key \in DOMAIN store
    /\ store[op[c].key] = UnknownActionBlob
    /\ AsAh \in DOMAIN ret[c].val.strategies
    /\ DOMAIN ret[c].val.strategies[AsAh].actions = {"RAISE"}
    /\ ret[c].val.strategies[AsAh].actions["RAISE"] = 90

(***************************************************************************)
(* solver/bridge.py: Strategy.primary_action.  A Python dict keeps its     *)
(* keys in insertion order and max() walks them in that order, so here the *)
(* actions of a strategy are the sequence of its (action, frequency)       *)
(* items.  SpecPrimary draws a strategy a, builds b from the same items    *)
(* inserted in another order and asks both for their primary action.       *)
(***************************************************************************)
\* the dict that a sequence of items builds
ItemsDict(items) ==
  [a \in {items[i][1] : i \in 1..Len(items)} |->
     items[CHOOSE i \in 1..Len(items) : items[i][1] = a][2]]

\* max(self.actions, key=lambda a: self.actions[a]): the first key, in
\* insertion order, whose frequency no other key exceeds; max() of an empty
\* dict raises ValueError
primary_action(items) ==
  IF items = <<>> THEN "ValueError"
  ELSE items[CHOOSE i \in 1..Len(items) :
               /\ \A j \in 1..Len(items) : items[j][2] <= items[i][2]
               /\ \A j \in 1..(i - 1) : items[j][2] < items[i][2]][1]

\* the strategies asked: up to three of the actions raise, call and fold in
\* every insertion order, with frequencies in percent
PrimaryActions == {"RAISE", "CALL", "FOLD"}
PrimaryFrequencies == {0, 50, 90}

PrimaryInputs ==
  {items \in UNION {[1..n -> PrimaryActions \X PrimaryFrequencies] : n \in 0..3} :
     \A i, j \in 1..Len(items) : items[i][1] = items[j][1] => i = j}

InitPrimary ==
  /\ cache = EmptyDict
  /\ pending = <<>>
  /\ loading = FALSE
  /\ fallback = "None"
  /\ store = EmptyDict
  /\ pc = [c \in Callers |-> "idle"]
  /\ op = [c \in Callers |-> NoCall]
  /\ ret = [c \in Callers |-> NoResult]
  /\ snap = NoSnap
  /\ queued_keys = {}
  /\ nops = 0
  /\ flushed = EmptyDict
  /\ parked = SecondInstance
  /\ probe \in {[NoProbe EXCEPT !.how = "input", !.a = items, !.b = items] :
                  items \in PrimaryInputs}

\* a.primary_action and b.primary_action; key_a and key_b hold the answers
ComputePrimary(how, a, b) ==
  /\ probe' = [how |-> how, a |-> a, b |-> b,
               key_a |-> primary_action(a), key_b |-> primary_action(b), at |-> nops]
  /\ UNCHANGED <<cache, pending, loading, fallback, store, pc, op, ret, snap,
                 queued_keys, nops, flushed, parked>>

\* the primary action of a is asked twice
PrimaryAgain ==
  /\ probe.how = "input"
  /\ ComputePrimary("again", probe.a, probe.a)

\* b holds the items of a with those at i and j inserted in each other's place
Reinserted(i, j) ==
  /\ probe.how = "input"
  /\ i < j
  /\ j <= Len(probe.a)
  /\ ComputePrimary("reinserted", probe.a, SwapAt(probe.a, i, j))

NextPrimary ==
  \/ PrimaryAgain
  \/ \E i, j \in 1..3 : Reinserted(i, j)

SpecPrimary == InitPrimary /\ [][NextPrimary]_vars

(***************************************************************************)
(* C26  Primary action.  primary_action returns an action whose frequency  *)
(* is maximal in the strategy, and a tie for the maximum is decided by one *)
(* fixed priority order of the actions: two strategies with the same       *)
(* action-to-frequency mapping report the same primary action, in whatever *)
(* order their actions were inserted or loaded.                            *)
(***************************************************************************)
PrimaryActionFixed ==
  (probe.how \in {"again", "reinserted"} /\ probe.a # <<>>)
  => /\ \E i \in 1..Len(probe.a) :
          /\ probe.a[i][1] = probe.key_a
          /\ \A j \in 1..Len(probe.a) : probe.a[j][2] <= probe.a[i][2]
     /\ ItemsDict(probe.a) = ItemsDict(probe.b) => probe.key_a = probe.key_b

(***************************************************************************)
(* Vocabulary of the key ingredients.                                      *)
(***************************************************************************)
\* the keys of a and b have been computed
KeysComputed == probe.how \in {"suits", "order", "other"}

\* the decision points whose keys the probe holds, each with its key
Probed ==
  IF KeysComputed THEN {<<probe.a, probe.key_a>>, <<probe.b, probe.key_b>>} ELSE {}

\* the number in the stack ingredient and in the pot ingredient of a key
StackOf(key) == key[1][2]
PotOf(key) == key[2][2]

PotIngredient ==
  \A x \in Probed :
    LET s == x[1].effective_stack
        pot == x[1].pot
        n == PotOf(x[2]) \div 10
    IN /\ x[2][2][1] = "pot"
       /\ PotOf(x[2]) % 10 = 0
       /\ s = 0 => PotOf(x[2]) = 0
       /\ s > 0 => (/\ 2 * (n * s - 10 * pot) <= s
                    /\ 2 * (10 * pot - n * s) <= s)

\* the keys of 15 into 100, where pot / stack * 10 is 1.5, and of 75 into
\* 150, where the bucket of the stack would give 7.5, have been computed
PotIngredientWitness ==
  /\ probe.how = "other"
  /\ probe.a.pot = 15 /\ probe.a.effective_stack = 100
  /\ probe.b.pot = 75 /\ probe.b.effective_stack = 150
  /\ PotOf(probe.key_a) = 20
  /\ PotOf(probe.key_b) = 50

(***************************************************************************)
(* Vocabulary of the board ingredient.                                     *)
(***************************************************************************)
\* the probed decision points that have a board
ProbedBoards == {x \in Probed : x[1].board # <<>>}

\* the relabelled cards and the texture tag in the key of a board
PartsOf(key) == key[3][2][1]
TagOf(key) == key[3][2][2]

\* the number of board cards of the most frequent suit
MaxSuited(cards) ==
  CHOOSE m \in 1..Len(cards) :
    /\ \E s \in Suit : Cardinality({i \in 1..Len(cards) : cards[i][2] = s}) = m
    /\ \A s \in Suit : Cardinality({i \in 1..Len(cards) : cards[i][2] = s}) <= m

\* the ranks of the board, each as often as it occurs
RankCounts(cards) ==
  [r \in Range(RankOrder) |-> Cardinality({i \in 1..Len(cards) : cards[i][1] = r})]

(***************************************************************************)
(* C29  Texture tag.  For a board that is not empty the tag is 'mono' iff  *)
(* some suit is on 3 or more board cards, 'fd' iff the most frequent suit  *)
(* is on exactly 2, and 'rainbow' otherwise; it depends on the suit counts *)
(* only, not on the order of the cards or on which suits they are, so a    *)
(* board with three cards of one suit and a rainbow board of the same      *)
(* ranks have different keys.                                              *)
(***************************************************************************)
TextureTag ==
  /\ \A x \in ProbedBoards :
       LET tag == TagOf(x[2])
           m == MaxSuited(x[1].board)
       IN /\ tag = "mono" <=> m >= 3
          /\ tag = "fd" <=> m = 2
          /\ tag = "rainbow" <=> m <= 1
  /\ probe.how \in {"suits", "order"} => TagOf(probe.key_a) = TagOf(probe.key_b)
  /\ (/\ probe.how = "other"
      /\ probe.a.board # <<>>
      /\ probe.b.board # <<>>
      /\ RankCounts(probe.a.board) = RankCounts(probe.b.board)
      /\ MaxSuited(probe.a.board) >= 3
      /\ MaxSuited(probe.b.board) <= 1)
     => probe.key_a # probe.key_b

\* the keys of a flop of one suit and of a rainbow flop of the same ranks
\* have been computed
TextureTagWitness ==
  /\ probe.how = "other"
  /\ probe.a.board # <<>>
  /\ probe.b.board # <<>>
  /\ RankCounts(probe.a.board) = RankCounts(probe.b.board)
  /\ TagOf(probe.key_a) = "mono"
  /\ TagOf(probe.key_b) = "rainbow"
  /\ probe.key_a # probe.key_b

(***************************************************************************)
(* C30  Suit relabeling.  Walking the board cards from the highest rank    *)
(* down, the first suit met is written 'a', the second new suit 'b', the   *)
(* third 'c', the fourth 'd'; on every board of up to 5 cards two cards    *)
(* get the same symbol iff they have the same suit.                        *)
(***************************************************************************)
\* the number of different suits among the first i cards of the walk
SuitsSeen(walk, i) == Cardinality({walk[j][2] : j \in 1..i})

\* the place in the walk where the suit of its card i is met first
FirstMet(walk, i) == CHOOSE k \in 1..i :
                       /\ walk[k][2] = walk[i][2]
                       /\ \A j \in 1..(k - 1) : walk[j][2] # walk[i][2]

SuitRelabeling ==
  \A x \in ProbedBoards :
    LET walk == SortedByRank(x[1].board)
        parts == PartsOf(x[2])
    IN /\ Len(parts) = Len(walk)
       /\ \A i \in 1..(Len(walk) - 1) : value_int(walk[i][1]) >= value_int(walk[i + 1][1])
       /\ \A i \in 1..Len(walk) :
            /\ parts[i][1] = walk[i][1]
            /\ parts[i][2] = canonical_suits[SuitsSeen(walk, FirstMet(walk, i))]
       /\ \A i, j \in 1..Len(walk) :
            parts[i][2] = parts[j][2] <=> walk[i][2] = walk[j][2]

\* the key of a board of 5 cards in all four suits has been computed
SuitRelabelingWitness ==
  /\ KeysComputed
  /\ Len(probe.a.board) = 5
  /\ {probe.a.board[i][2] : i \in 1..5} = Suit
  /\ {PartsOf(probe.key_a)[i][2] : i \in 1..5} = {"a", "b", "c", "d"}

(***************************************************************************)
(* The position ingredient of _cache_key.  SpecPosition draws a decision   *)
(* point a at any seat or at none, seats the hero elsewhere for b and      *)
(* computes the keys of both.                                              *)
(***************************************************************************)
PositionInputs ==
  {GameState(ps[1], ps[2], cards, pos) :
     ps \in {<<50, 100>>, <<50, 250>>},
     cards \in {<<>>, <<<<"K", "s">>, <<"7", "s">>, <<"2", "h">>>>},
     pos \in Position \cup {NoPosition}}

InitPosition ==
  /\ cache = EmptyDict
  /\ pending = <<>>
  /\ loading = FALSE
  /\ fallback = "None"
  /\ store = EmptyDict
  /\ pc = [c \in Callers |-> "idle"]
  /\ op = [c \in Callers |-> NoCall]
  /\ ret = [c \in Callers |-> NoResult]
  /\ snap = NoSnap
  /\ queued_keys = {}
  /\ nops = 0
  /\ flushed = EmptyDict
  /\ parked = SecondInstance
  /\ probe \in {[NoProbe EXCEPT !.how = "input", !.a = g, !.b = g] : g \in PositionInputs}

\* b is a with the hero at another seat, or at none
OtherPosition(pos) ==
  /\ probe.how = "input"
  /\ ComputeKeys("position", probe.a, [probe.a EXCEPT !.hero_position = pos])

NextPosition == \E pos \in Position \cup {NoPosition} : OtherPosition(pos)

SpecPosition == InitPosition /\ [][NextPosition]_vars

(***************************************************************************)
(* C31  Position-class collapse.  The hero positions BTN, CO and HJ map to *)
(* the class 'ip', every other known position (SB, BB, UTG, UTG+1, UTG+2,  *)
(* MP, MP+1) to 'oop' and a missing position to 'unk'; two decision points *)
(* that differ in the hero position only have the same key iff their       *)
(* positions are in the same class.                                        *)
(***************************************************************************)
\* the class the claim gives a position
ClaimedClass(pos) ==
  CASE pos \in {"BTN", "CO", "HJ"} -> "ip"
    [] pos \in {"SB", "BB", "UTG", "UTG1", "UTG2", "MP", "MP1"} -> "oop"
    [] pos = NoPosition -> "unk"

PositionCollapse ==
  probe.how = "position"
  => /\ probe.key_a[4] = ClaimedClass(probe.a.hero_position)
     /\ probe.key_b[4] = ClaimedClass(probe.b.hero_position)
     /\ probe.key_a = probe.key_b
          <=> ClaimedClass(probe.a.hero_position) = ClaimedClass(probe.b.hero_position)

\* the keys of one decision point with the hero in the hijack and on the
\* button have been computed, and they are the same
PositionCollapseWitness ==
  /\ probe.how = "position"
  /\ probe.a.hero_position = "HJ"
  /\ probe.b.hero_position = "BTN"
  /\ probe.key_a = probe.key_b
  /\ probe.key_a[4] = "ip"

(***************************************************************************)
(* Two PrecomputedSolver instances on one cache directory, as two worker   *)
(* processes of the web application have them.  SpecShared runs one call   *)
(* at a time; cache, pending, loading, fallback and queued_keys are those  *)
(* of the instance that runs the next call, the other instance is parked.  *)
(***************************************************************************)
InitShared == Init /\ store = EmptyDict /\ fallback = "solver"

\* the next call goes to the other instance
SwitchInstance ==
  /\ AllIdle
  /\ cache' = parked.cache
  /\ pending' = parked.pending
  /\ loading' = parked.loading
  /\ fallback' = parked.fallback
  /\ queued_keys' = parked.queued_keys
  /\ parked' = [cache |-> cache, pending |-> pending, loading |-> loading,
                fallback |-> fallback, queued_keys |-> queued_keys]
  /\ UNCHANGED <<store, pc, op, ret, snap, nops, flushed, probe>>

NextShared ==
  \/ NextSeq
  \/ SwitchInstance

SpecShared == InitShared /\ [][NextShared]_vars

(***************************************************************************)
(* C32  Unconditional overwrite.  flush_pending_cache writes each pending  *)
(* entry over whatever blob the store holds for the key, without reading   *)
(* or merging it; when two instances on one store directory have both      *)
(* queued a result for one key and both flush, the store holds exactly the *)
(* blob of the instance that flushed last.                                 *)
(***************************************************************************)
\* this step is a file write of the flush of caller c
FlushWrites(c) == pc[c] = "flush_iter" /\ op'[c].pos = op[c].pos + 1

UnconditionalOverwrite ==
  [][/\ \A c \in Callers :
          FlushWrites(c)
          => LET entry == pending[op[c].pos]
             IN /\ entry.key \in DOMAIN store'
                /\ store'[entry.key] = SerializeSolution(entry.solution)
                /\ \A k \in DOMAIN store' \ {entry.key} :
                     k \in DOMAIN store /\ store'[k] = store[k]
     /\ \A k \in DOMAIN flushed' :
          k \in DOMAIN store' /\ store'[k] = SerializeSolution(flushed'[k])]_vars

\* both instances have flushed their own fallback result for one key, the
\* running instance last: the file holds its blob, not the other one's
UnconditionalOverwriteWitness ==
  \E k \in DOMAIN cache \cap DOMAIN parked.cache :
    /\ AllIdle
    /\ pending = <<>>
    /\ parked.pending = <<>>
    /\ cache[k].strategies # parked.cache[k].strategies
    /\ k \in DOMAIN flushed
    /\ flushed[k] = cache[k]
    /\ k \in DOMAIN store
    /\ store[k] = SerializeSolution(cache[k])
    /\ store[k] # SerializeSolution(parked.cache[k])

(***************************************************************************)
(* C33  Game state of the returned Solution.  The Solution that a solve    *)
(* call returns has, in its game_state, the pot, the effective stack and   *)
(* the board of the game state passed to that call, also when the call is  *)
(* answered from the memory cache for a key that was first resolved for    *)
(* another decision point of the same key.                                 *)
(***************************************************************************)
ReturnedGameState ==
  [][\A c \in Callers :
       (/\ Returned(c)
        /\ op'[c].name = "solve"
        /\ ret'[c].kind = "Solution")
       => (/\ ret'[c].val.game_state.pot = op'[c].game_state.pot
           /\ ret'[c].val.game_state.effective_stack = op'[c].game_state.effective_stack
           /\ ret'[c].val.game_state.board = op'[c].game_state.board)]_vars

(***************************************************************************)
(* C34  Pending queue is covered by the memory cache.  In every state      *)
(* reached by solve, get_strategy and flush_pending_cache calls made one   *)
(* at a time, every key in the pending-write queue is in the memory cache  *)
(* too and maps to the same Solution there.                                *)
(***************************************************************************)
PendingCovered ==
  \A i \in 1..Len(pending) :
    /\ pending[i].key \in DOMAIN cache
    /\ cache[pending[i].key] = pending[i].solution

\* a fallback result sits in the queue and in the memory cache, after a
\* later call has returned
PendingCoveredWitness ==
  /\ AllIdle
  /\ nops >= 2
  /\ pending # <<>>
  /\ cache[pending[1].key] = pending[1].solution

(***************************************************************************)
(* C35  Pending queue holds only fresh fallback results.  A key enters the *)
(* pending-write queue only when a fallback solve for it has completed     *)
(* within the timeout after both the memory cache and the store missed;    *)
(* a Solution loaded from the store is never queued, so with one call at a *)
(* time on one instance a flush never rewrites a blob that the instance    *)
(* loaded: the file it writes did not exist.                               *)
(***************************************************************************)
\* the entries that this step puts into the queue or replaces there
Queued ==
  {i \in 1..Len(pending') : IF i > Len(pending) THEN TRUE ELSE pending'[i] # pending[i]}

OnlyFreshQueued ==
  [][/\ \A i \in Queued :
          \/ /\ i <= Len(pending)
             /\ pending'[i] = [pending[i] EXCEPT !.written = TRUE]
          \/ \E c \in Callers :
               /\ Returned(c)
               /\ op'[c].name \in {"solve", "get_strategy"}
               /\ op'[c].key = pending'[i].key
               /\ ret'[c].tier = "fallback"
               /\ op'[c].outcome.kind = "return"
               /\ op'[c].outcome.fast
               /\ op'[c].key \notin DOMAIN Before.cache
               /\ op'[c].key \notin DOMAIN Before.store
               /\ pending'[i].solution
                    = SolverSolution(op'[c].game_state, DefaultIterations)
     /\ \A c \in Callers :
          (Returned(c) /\ ret'[c].tier = "store") => pending' = pending
     /\ \A c \in Callers :
          FlushWrites(c) => pending[op[c].pos].key \notin DOMAIN store]_vars

\* a solve has just been answered from the store while the fallback result
\* of another key waits in the queue: the loaded key is not queued
OnlyFreshQueuedWitness ==
  \E c \in Callers :
    /\ Solved(c)
    /\ ret[c].tier = "store"
    /\ ret[c].kind = "Solution"
    /\ pending # <<>>
    /\ op[c].key \notin PendingKeys

(***************************************************************************)
(* A file write of flush_pending_cache can fail: open() or json.dump raise *)
(* OSError (no permission, no space).  SpecFail is SpecSeq with such       *)
(* failures.                                                               *)
(***************************************************************************)
\* a faulty variant: the queue is cleared when a write fails
PendingClearedOnFailure(queue) == <<>>

\* the exception leaves the loop and the function: line 579,
\* self._pending_cache.clear(), is not reached
PendingAfterFailure(queue) == queue

\* lines 575-576 raise for the entry the loop has reached; `damaged`: the
\* file was opened and is left truncated
FlushWriteFails(c, damaged) ==
  /\ pc[c] = "flush_iter"
  /\ Len(pending) = op[c].used
  /\ op[c].pos <= Len(pending)
  /\ store' = IF damaged THEN DictSet(store, pending[op[c].pos].key, GarbageBlob)
              ELSE store
  /\ pending' = PendingAfterFailure(pending)
  /\ pc' = [pc EXCEPT ![c] = "idle"]
  /\ ret' = [ret EXCEPT ![c] = [kind |-> "OSError", tier |-> "none", val |-> op[c].count]]
  /\ snap' = NoSnap
  /\ UNCHANGED <<cache, loading, fallback, op, queued_keys, nops, flushed, probe, parked>>

NextFail ==
  \/ NextSeq
  \/ \E c \in Callers, damaged \in BOOLEAN : FlushWriteFails(c, damaged)

SpecFail == Init /\ [][NextFail]_vars

(***************************************************************************)
(* C36  Flush failure keeps the queue.  When a file write fails part-way   *)
(* through flush_pending_cache, the error reaches the caller and the       *)
(* pending queue still holds every entry it held before the flush, those   *)
(* already written included; a later flush that succeeds writes the blobs  *)
(* of all of them.                                                         *)
(***************************************************************************)
\* the queues hold the same keys with the same Solutions, in the same order
SameQueue(p, q) ==
  /\ Len(p) = Len(q)
  /\ \A i \in 1..Len(p) : p[i].key = q[i].key /\ p[i].solution = q[i].solution

FlushFailureKeeps ==
  [][\A c \in Callers :
       (Returned(c) /\ op'[c].name = "flush")
       => /\ ret'[c].kind \in {"OSError", "int"}
          /\ ret'[c].kind = "OSError" => SameQueue(pending', Before.pending)
          /\ ret'[c].kind = "int"
             => /\ pending' = <<>>
                /\ \A i \in 1..Len(Before.pending) :
                     /\ Before.pending[i].key \in DOMAIN store'
                     /\ store'[Before.pending[i].key]
                          = SerializeSolution(Before.pending[i].solution)]_vars

\* a flush of two queued results has failed at the second write: the first
\* blob is in the store and both entries are still queued
FlushFailureKeepsWitness ==
  \E c \in Callers :
    /\ pc[c] = "idle"
    /\ op[c].name = "flush"
    /\ ret[c].kind = "OSError"
    /\ Len(pending) = 2
    /\ op[c].pos = 2
    /\ pending[1].key \in DOMAIN store
    /\ store[pending[1].key] = SerializeSolution(pending[1].solution)

(***************************************************************************)
(* core/game_state.py: Board.add_card.  SpecBoard starts from Board() and  *)
(* adds cards one call after another; probe.a.board is the board and       *)
(* probe.how tells how the last call ended.                                *)
(***************************************************************************)
MaxBoardCards == 5

\* the cards added: add_card does not look at the card, two ranks in two
\* suits are enough, and a card may be added twice
BoardDeck == {"K", "7"} \X {"s", "h"}

\* a faulty variant: the board counts as full only beyond 5 cards
BoardFullLate(cards) == Len(cards) > MaxBoardCards

\* line 130: if len(self.cards) >= 5
BoardFull(cards) == Len(cards) >= MaxBoardCards

InitBoard ==
  /\ cache = EmptyDict
  /\ pending = <<>>
  /\ loading = FALSE
  /\ fallback = "None"
  /\ store = EmptyDict
  /\ pc = [c \in Callers |-> "idle"]
  /\ op = [c \in Callers |-> NoCall]
  /\ ret = [c \in Callers |-> NoResult]
  /\ snap = NoSnap
  /\ queued_keys = {}
  /\ nops = 0
  /\ flushed = EmptyDict
  /\ parked = SecondInstance
  /\ probe = [NoProbe EXCEPT !.how = "Board()"]

\* lines 128-132: raise ValueError on a full board, else append the card
add_card(card) ==
  /\ probe.how \in {"Board()", "added", "ValueError"}
  /\ probe' = IF BoardFull(probe.a.board)
              THEN [probe EXCEPT !.how = "ValueError"]
              ELSE [probe EXCEPT !.how = "added", !.a.board = Append(@, card)]
  /\ UNCHANGED <<cache, pending, loading, fallback, store, pc, op, ret, snap,
                 queued_keys, nops, flushed, parked>>

NextBoard == \E card \in BoardDeck : add_card(card)

SpecBoard == InitBoard /\ [][NextBoard]_vars

(***************************************************************************)
(* C37  Board size bound.  add_card on a board that holds 5 cards already  *)
(* fails with ValueError and leaves the board as it is, so after any       *)
(* sequence of add_card calls the board holds at most 5 cards.             *)
(***************************************************************************)
BoardBound ==
  [][/\ Len(probe.a.board) >= 5
        => (probe'.how = "ValueError" /\ probe'.a.board = probe.a.board)
     /\ Len(probe.a.board) < 5
        => (probe'.how = "added" /\ Len(probe'.a.board) = Len(probe.a.board) + 1)
     /\ Len(probe'.a.board) <= 5]_vars

\* add_card has just failed on a board of 5 cards
BoardBoundWitness ==
  /\ probe.how = "ValueError"
  /\ Len(probe.a.board) = 5

====
